---------------------------- MODULE Spec2Model ----------------------------
(***************************************************************************)
(* The bulk CSV -> Neo4j loader of hospital_bulk_csv_write.py as a state   *)
(* machine: the retry wrapper, the driver, the constraint step, the six    *)
(* node-load steps and the six relationship-load steps, against a graph    *)
(* store that evaluates the Cypher statements the loader sends.            *)
(*                                                                         *)
(* CSV fields are text (strings); toInteger / toFloat turn text into       *)
(* numbers.  A float is held as a whole number of tenths.  The store holds  *)
(* bags, so that two nodes or two relationships that agree in everything   *)
(* are still two.                                                          *)
(***************************************************************************)
EXTENDS Integers, Sequences, FiniteSets, Bags, TLC

VARIABLES
    csv,          \* the six CSV extracts: file -> [path_set, rows]
    nodes,        \* store: bag of nodes [label, props]
    edges,        \* store: bag of relationships [type, from, to, props]
    constraints,  \* store: labels carrying a uniqueness constraint on id
    pc,           \* position of the process
    step,         \* index into StepOrder of the current load step
    row,          \* number of rows of the current step already consumed
    tries,        \* attempts the retry wrapper has left (_tries)
    attempts,     \* calls of the function made by this invocation
    lastError,    \* kind of the exception that ended the latest attempt
    openDrivers,  \* drivers created by this process and not closed
    openSessions, \* sessions currently open
    openFiles,    \* CSV files currently open
    progress,     \* step name -> writes issued by that step in this attempt
    finished,     \* step names whose block ran to its end in this attempt
    prev,         \* outcome of the previous invocation
    edits         \* edits made to the extracts between invocations

vars == << csv, nodes, edges, constraints, pc, step, row, tries, attempts, lastError,
           openDrivers, openSessions, openFiles, progress, finished, prev,
           edits >>

---------------------------------------------------------------------------
(* Bounds of the model *)

\* Transient store faults strike only during the first MaxFaultyAttempts
\* attempts of an invocation.
MaxFaultyAttempts == 2
MaxEdits == 1

---------------------------------------------------------------------------
(* Program constants *)

\* @retry(tries=100, delay=10)
Tries == 100

NODES == << "Hospital", "Payer", "Physician", "Patient", "Visit", "Review" >>

Labels == { NODES[i] : i \in 1..Len(NODES) }

RelTypes == { "AT", "WRITES", "TREATS", "COVERED_BY", "HAS", "EMPLOYS" }

Files == { "HOSPITALS_CSV_PATH", "PAYERS_CSV_PATH", "PHYSICIANS_CSV_PATH",
           "PATIENTS_CSV_PATH", "VISITS_CSV_PATH", "REVIEWS_CSV_PATH" }

\* Mutant: the hospital nodes are loaded before the constraints are set.
StepOrderNodesFirst ==
    << "Hospital", "constraints",
       "Payer", "Physician", "Patient", "Visit", "Review",
       "AT", "WRITES", "TREATS", "COVERED_BY", "HAS", "EMPLOYS" >>

\* Mutant: the AT block stands before the block that loads the hospitals.
StepOrderRelEarly ==
    << "constraints",
       "Payer", "Physician", "Patient", "Visit", "Review",
       "AT", "Hospital", "WRITES", "TREATS", "COVERED_BY", "HAS", "EMPLOYS" >>

\* The order of the blocks of load_hospital_graph_from_csv.
StepOrder == << "constraints",
                "Hospital", "Payer", "Physician", "Patient", "Visit", "Review",
                "AT", "WRITES", "TREATS", "COVERED_BY", "HAS", "EMPLOYS" >>

StepNames == { "constraints" } \cup Labels \cup RelTypes

\* The CSV file each block opens.
StepFile(s) ==
    CASE s = "Hospital"   -> "HOSPITALS_CSV_PATH"
      [] s = "Payer"      -> "PAYERS_CSV_PATH"
      [] s = "Physician"  -> "PHYSICIANS_CSV_PATH"
      [] s = "Patient"    -> "PATIENTS_CSV_PATH"
      [] s = "Visit"      -> "VISITS_CSV_PATH"
      [] s = "Review"     -> "REVIEWS_CSV_PATH"
      [] s = "AT"         -> "VISITS_CSV_PATH"
      [] s = "WRITES"     -> "REVIEWS_CSV_PATH"
      [] s = "TREATS"     -> "VISITS_CSV_PATH"
      [] s = "COVERED_BY" -> "VISITS_CSV_PATH"
      [] s = "HAS"        -> "VISITS_CSV_PATH"
      [] s = "EMPLOYS"    -> "VISITS_CSV_PATH"

---------------------------------------------------------------------------
(* Cypher's conversions of text *)

\* Text that toInteger parses, with its value; other text gives null.
IntegerText == { "1", "01", "2", "5", "10", "12", "100", "101" }

toInteger(s) ==
    CASE s = "1"   -> 1
      [] s = "01"  -> 1
      [] s = "2"   -> 2
      [] s = "5"   -> 5
      [] s = "10"  -> 10
      [] s = "12"  -> 12
      [] s = "100" -> 100
      [] s = "101" -> 101

\* Text that toFloat parses, with its value in tenths; other text gives null.
FloatText == { "10.5", "20", "20.0", "300000" }

toFloat(s) ==
    CASE s = "10.5"   -> 105
      [] s = "20"     -> 200
      [] s = "20.0"   -> 200
      [] s = "300000" -> 3000000

---------------------------------------------------------------------------
(* The extracts: rows are records of the CSV header's fields, all text *)

HospitalRow(id, name) ==
    [ hospital_id |-> id, hospital_name |-> name, hospital_state |-> "CA" ]

PayerRow(id, name) ==
    [ payer_id |-> id, payer_name |-> name ]

PhysicianRow(id, name) ==
    [ physician_id |-> id, physician_name |-> name, physician_dob |-> "1970-01-01",
      physician_grad_year |-> "1995", medical_school |-> "UCSF", salary |-> "300000" ]

PatientRow(id, name) ==
    [ patient_id |-> id, patient_name |-> name, patient_sex |-> "F",
      patient_dob |-> "1980-02-02", patient_blood_type |-> "O+" ]

VisitRow(id, hospital, physician, patient, payer, discharge, billing) ==
    [ visit_id |-> id, room_number |-> "12", admission_type |-> "Emergency",
      date_of_admission |-> "2023-01-01", test_results |-> "Normal",
      visit_status |-> "DISCHARGED", chief_complaint |-> "pain",
      treatment_description |-> "rest", primary_diagnosis |-> "flu",
      discharge_date |-> discharge, hospital_id |-> hospital,
      physician_id |-> physician, patient_id |-> patient, payer_id |-> payer,
      billing_amount |-> billing ]

ReviewRow(id, visit) ==
    [ review_id |-> id, review |-> "good", patient_name |-> "Ann",
      physician_name |-> "Bob", hospital_name |-> "General", visit_id |-> visit ]

\* The extracts of a plain load.
OneHospital == << HospitalRow("1", "General") >>
OneVisit == << VisitRow("100", "1", "1", "10", "5", "2023-01-05", "10.5") >>

\* Other contents of the hospitals extract: the same id twice with different
\* names (the second id spelled with a leading zero); an id that is no number.
HospitalFiles ==
    { << HospitalRow("1", "General"), HospitalRow("01", "Mercy") >>,
      << HospitalRow("x", "General") >> }

\* Contents the visits extract is drawn from.
VisitFiles ==
    { OneVisit,
      \* two visits at the same hospital with the same physician
      << VisitRow("100", "1", "1", "10", "5", "2023-01-05", "10.5"),
         VisitRow("101", "1", "1", "10", "5", "2023-01-05", "20") >>,
      \* one visit listed twice, billed differently
      << VisitRow("100", "1", "1", "10", "5", "2023-01-05", "10.5"),
         VisitRow("100", "1", "1", "10", "5", "2023-01-05", "20") >>,
      \* one visit listed twice, discharged on different dates
      << VisitRow("100", "1", "1", "10", "5", "2023-01-05", "10.5"),
         VisitRow("100", "1", "1", "10", "5", "2023-01-09", "10.5") >>,
      \* a visit at a hospital that is in no extract
      << VisitRow("100", "2", "1", "10", "5", "2023-01-05", "10.5") >> }

File(rows) == [ path_set |-> TRUE, rows |-> rows ]

\* An extract whose path variable is not set: os.getenv gives None.
Unset == [ path_set |-> FALSE, rows |-> << >> ]

Extracts(hospitals, visits) ==
    [ f \in Files |->
        CASE f = "HOSPITALS_CSV_PATH"  -> hospitals
          [] f = "PAYERS_CSV_PATH"     -> File(<< PayerRow("5", "Medicaid") >>)
          [] f = "PHYSICIANS_CSV_PATH" -> File(<< PhysicianRow("1", "Bob") >>)
          [] f = "PATIENTS_CSV_PATH"   -> File(<< PatientRow("10", "Ann") >>)
          [] f = "VISITS_CSV_PATH"     -> visits
          [] f = "REVIEWS_CSV_PATH"    -> File(<< ReviewRow("1", "100") >>) ]

\* One hospital, one payer, one patient and one visit that names them; the
\* extracts of the physicians and of the reviews hold their header only.
ExampleScenario ==
    [ Extracts(File(OneHospital), File(OneVisit))
        EXCEPT !["PHYSICIANS_CSV_PATH"] = File(<< >>),
               !["REVIEWS_CSV_PATH"] = File(<< >>) ]

\* The inputs an invocation may find.
Inputs ==
    { Extracts(File(OneHospital), File(v)) : v \in VisitFiles }
    \cup { Extracts(File(h), File(OneVisit)) : h \in HospitalFiles }
    \cup { Extracts(Unset, File(OneVisit)) }
    \cup { ExampleScenario }

\* Values an edit between two invocations may give a visit row.
DischargeDates == { "2023-01-05", "2023-01-09" }
BillingAmounts == { "10.5", "20.0" }

\* The extracts with one field of one visit row changed.
Edited(c) ==
    LET v == c["VISITS_CSV_PATH"] IN
    { [ c EXCEPT !["VISITS_CSV_PATH"].rows[i].discharge_date = d ] :
          i \in 1..Len(v.rows), d \in DischargeDates }
    \cup
    { [ c EXCEPT !["VISITS_CSV_PATH"].rows[i].billing_amount = b ] :
          i \in 1..Len(v.rows), b \in BillingAmounts }

---------------------------------------------------------------------------
(* The store's evaluation of the loader's Cypher statements *)

\* Outcomes of a statement.
Ok == "ok"
TransientStoreError == "TransientStoreError"
ConfigurationError == "ConfigurationError"
DataError == "DataError"
ConstraintViolationError == "ConstraintViolationError"

Exceptions ==
    { TransientStoreError, ConfigurationError, DataError, ConstraintViolationError }

Restrict(B, S) == [ e \in S |-> B[e] ]

\* The number of nodes of a label with an id.
IdCount(N, label, id) ==
    BagCardinality(Restrict(N, { n \in BagToSet(N) :
                                   n.label = label /\ n.props.id = id }))

\* The number of relationships of a type from one node to another.
PairCount(E, type, a, b) ==
    BagCardinality(Restrict(E, { e \in BagToSet(E) :
                                   e.type = type /\ e.from = a /\ e.to = b }))

\* Mutant: CREATE CONSTRAINT without IF NOT EXISTS, which the store refuses
\* for a label that has the constraint.
CreateConstraintOutcome(N, C, label) ==
    IF label \in C
       \/ \E n \in BagToSet(N) : n.label = label /\ IdCount(N, label, n.props.id) > 1
    THEN ConstraintViolationError
    ELSE Ok

\* CREATE CONSTRAINT IF NOT EXISTS FOR (n:label) REQUIRE n.id IS UNIQUE:
\* the store refuses to create a constraint its data already violates.
ConstraintOutcome(N, C, label) ==
    IF label \notin C
       /\ \E n \in BagToSet(N) : n.label = label /\ IdCount(N, label, n.props.id) > 1
    THEN ConstraintViolationError
    ELSE Ok

\* Mutant: the constraint statement is never sent.
NoConstraint(C, label) == C

set_uniqueness_constraints(C, label) == C \cup { label }

\* The fields of a row that the node statement of a label converts with
\* toInteger, and with toFloat.
IntegerFields(label, r) ==
    CASE label = "Hospital"  -> { r.hospital_id }
      [] label = "Payer"     -> { r.payer_id }
      [] label = "Physician" -> { r.physician_id }
      [] label = "Patient"   -> { r.patient_id }
      [] label = "Visit"     -> { r.visit_id, r.room_number }
      [] label = "Review"    -> { r.review_id }

FloatFields(label, r) ==
    IF label = "Physician" THEN { r.salary } ELSE { }

\* The property map of the node pattern of each MERGE, from the row.
NodeProps(label, r) ==
    CASE label = "Hospital" ->
           [ id |-> toInteger(r.hospital_id), name |-> r.hospital_name,
             state_name |-> r.hospital_state ]
      [] label = "Payer" ->
           [ id |-> toInteger(r.payer_id), name |-> r.payer_name ]
      [] label = "Physician" ->
           [ id |-> toInteger(r.physician_id), name |-> r.physician_name,
             dob |-> r.physician_dob, grad_year |-> r.physician_grad_year,
             school |-> r.medical_school, salary |-> toFloat(r.salary) ]
      [] label = "Patient" ->
           [ id |-> toInteger(r.patient_id), name |-> r.patient_name,
             sex |-> r.patient_sex, dob |-> r.patient_dob,
             blood_type |-> r.patient_blood_type ]
      [] label = "Visit" ->
           [ id |-> toInteger(r.visit_id),
             room_number |-> toInteger(r.room_number),
             admission_type |-> r.admission_type,
             admission_date |-> r.date_of_admission,
             test_results |-> r.test_results, status |-> r.visit_status,
             chief_complaint |-> r.chief_complaint,
             treatment_description |-> r.treatment_description,
             diagnosis |-> r.primary_diagnosis,
             discharge_date |-> r.discharge_date ]
      [] label = "Review" ->
           [ id |-> toInteger(r.review_id), text |-> r.review,
             patient_name |-> r.patient_name,
             physician_name |-> r.physician_name,
             hospital_name |-> r.hospital_name ]

NodePattern(label, r) == [ label |-> label, props |-> NodeProps(label, r) ]

\* MERGE (n:label {props}): a null property value is an error; a node with
\* the label and every property of the pattern satisfies the MERGE; otherwise
\* the node is created, which a uniqueness constraint on id may refuse.
MergeNodeOutcome(N, C, label, r) ==
    IF ~ (IntegerFields(label, r) \subseteq IntegerText
          /\ FloatFields(label, r) \subseteq FloatText)
    THEN DataError
    ELSE IF BagIn(NodePattern(label, r), N)
    THEN Ok
    ELSE IF label \in C /\ IdCount(N, label, NodeProps(label, r).id) > 0
    THEN ConstraintViolationError
    ELSE Ok

MergeNode(N, label, r) ==
    IF BagIn(NodePattern(label, r), N)
    THEN N
    ELSE N (+) SetToBag({ NodePattern(label, r) })

\* Mutant: the HAS relationship is merged from the visit to the patient.
RelEndsHasReversed(type, r) ==
    CASE type = "AT" ->
           [ from |-> << "Visit", r.visit_id >>, to |-> << "Hospital", r.hospital_id >> ]
      [] type = "WRITES" ->
           [ from |-> << "Visit", r.visit_id >>, to |-> << "Review", r.review_id >> ]
      [] type = "TREATS" ->
           [ from |-> << "Physician", r.physician_id >>, to |-> << "Visit", r.visit_id >> ]
      [] type = "COVERED_BY" ->
           [ from |-> << "Visit", r.visit_id >>, to |-> << "Payer", r.payer_id >> ]
      [] type = "HAS" ->
           [ from |-> << "Visit", r.visit_id >>, to |-> << "Patient", r.patient_id >> ]
      [] type = "EMPLOYS" ->
           [ from |-> << "Hospital", r.hospital_id >>, to |-> << "Physician", r.physician_id >> ]

\* The two node patterns a relationship statement MATCHes, in the direction
\* of the relationship it MERGEs: label and the row's text for the id.
RelEnds(type, r) ==
    CASE type = "AT" ->
           [ from |-> << "Visit", r.visit_id >>, to |-> << "Hospital", r.hospital_id >> ]
      [] type = "WRITES" ->
           [ from |-> << "Visit", r.visit_id >>, to |-> << "Review", r.review_id >> ]
      [] type = "TREATS" ->
           [ from |-> << "Physician", r.physician_id >>, to |-> << "Visit", r.visit_id >> ]
      [] type = "COVERED_BY" ->
           [ from |-> << "Visit", r.visit_id >>, to |-> << "Payer", r.payer_id >> ]
      [] type = "HAS" ->
           [ from |-> << "Patient", r.patient_id >>, to |-> << "Visit", r.visit_id >> ]
      [] type = "EMPLOYS" ->
           [ from |-> << "Hospital", r.hospital_id >>, to |-> << "Physician", r.physician_id >> ]

\* The labels at the two ends of each relationship type.
EndLabels(type) ==
    CASE type = "AT"         -> { "Visit", "Hospital" }
      [] type = "WRITES"     -> { "Visit", "Review" }
      [] type = "TREATS"     -> { "Physician", "Visit" }
      [] type = "COVERED_BY" -> { "Visit", "Payer" }
      [] type = "HAS"        -> { "Patient", "Visit" }
      [] type = "EMPLOYS"    -> { "Hospital", "Physician" }

\* MATCH (n:label {id: toInteger(text)}): nothing equals null.
MatchNodes(N, end) ==
    IF end[2] \in IntegerText
    THEN { n \in BagToSet(N) : n.label = end[1] /\ n.props.id = toInteger(end[2]) }
    ELSE { }

NoProps == [ properties |-> 0 ]

\* Mutant: the COVERED_BY statement without its ON CREATE SET.
MergeOnly(type, r) == NoProps

\* ON CREATE SET of the COVERED_BY statement; setting a property to null
\* leaves it unset.
OnCreateProps(type, r) ==
    IF type = "COVERED_BY"
    THEN IF r.billing_amount \in FloatText
         THEN [ service_date |-> r.discharge_date,
                billing_amount |-> toFloat(r.billing_amount) ]
         ELSE [ service_date |-> r.discharge_date ]
    ELSE NoProps

\* Mutant: CREATE in the place of MERGE.
CreateRel(N, E, type, r) ==
    LET ends == RelEnds(type, r) IN
    E (+) SetToBag({ [ type |-> type, from |-> p[1], to |-> p[2],
                       props |-> OnCreateProps(type, r) ] :
                     p \in MatchNodes(N, ends.from) \X MatchNodes(N, ends.to) })

\* Mutant: the properties stand in the relationship pattern of the MERGE, as
\* they do in the node patterns.
MergeRelByProps(N, E, type, r) ==
    LET ends == RelEnds(type, r) IN
    E (+) SetToBag({ e \in { [ type |-> type, from |-> p[1], to |-> p[2],
                               props |-> OnCreateProps(type, r) ] :
                             p \in MatchNodes(N, ends.from) \X MatchNodes(N, ends.to) } :
                     ~ BagIn(e, E) })

\* Mutant: SET in the place of ON CREATE SET.
MergeRelSet(N, E, type, r) ==
    LET ends == RelEnds(type, r)
        hit(e) == /\ e.type = type
                  /\ e.from \in MatchNodes(N, ends.from)
                  /\ e.to \in MatchNodes(N, ends.to)
        kept == { e \in BagToSet(E) : ~ hit(e) }
    IN Restrict(E, kept)
       (+) SetToBag({ [ type |-> type, from |-> p[1], to |-> p[2],
                        props |-> OnCreateProps(type, r) ] :
                      p \in MatchNodes(N, ends.from) \X MatchNodes(N, ends.to) })

\* MATCH (a) MATCH (b) MERGE (a)-[:type]->(b) [ON CREATE SET ...]: for every
\* matched pair, a relationship of the type from a to b satisfies the MERGE,
\* otherwise one is created; with no matched pair nothing happens.
MergeRel(N, E, type, r) ==
    LET ends == RelEnds(type, r) IN
    E (+) SetToBag({ [ type |-> type, from |-> p[1], to |-> p[2],
                       props |-> OnCreateProps(type, r) ] :
                     p \in { q \in MatchNodes(N, ends.from) \X MatchNodes(N, ends.to) :
                               PairCount(E, type, q[1], q[2]) = 0 } })

\* Mutant: MERGE (a:A {id: ..})-[:type]->(b:B {id: ..}) without the two
\* MATCH clauses, which creates the whole pattern, nodes included, when no
\* such relationship is stored.
MergeWholePattern(N, E, type, r) ==
    LET ends == RelEnds(type, r) IN
    IF ends.from[2] \in IntegerText /\ ends.to[2] \in IntegerText
       /\ \A p \in MatchNodes(N, ends.from) \X MatchNodes(N, ends.to) :
              PairCount(E, type, p[1], p[2]) = 0
    THEN N (+) SetToBag({ [ label |-> e[1], props |-> [ id |-> toInteger(e[2]) ] ] :
                          e \in { ends.from, ends.to } })
    ELSE N

\* The nodes after a relationship statement: its MATCH clauses bind stored
\* nodes, its MERGE has both ends bound and writes the relationship only.
MatchedOnly(N, E, type, r) == N

---------------------------------------------------------------------------
(* The process *)

NoProgress == [ s \in StepNames |-> 0 ]

\* The store an invocation was started on, kept of an invocation that was
\* cut off.
NoCut == [ nodes |-> EmptyBag, edges |-> EmptyBag, constraints |-> { } ]

NoRun(c) ==
    [ status |-> "none", csv |-> c, nodes |-> EmptyBag, edges |-> EmptyBag,
      constraints |-> { }, cut |-> NoCut ]

Init ==
    /\ csv \in Inputs
    /\ nodes = EmptyBag
    /\ edges = EmptyBag
    /\ constraints = { }
    /\ pc = "driver"
    /\ step = 1
    /\ row = 0
    /\ tries = Tries
    /\ attempts = 0
    /\ lastError = "none"
    /\ openDrivers = 0
    /\ openSessions = 0
    /\ openFiles = 0
    /\ progress = NoProgress
    /\ finished = { }
    /\ prev = NoRun(csv)
    /\ edits = 0

CurrentStep == StepOrder[step]

\* The statements the current block issues: one per label for the
\* constraints, one per row of its file for the others.
StepLen ==
    IF CurrentStep = "constraints"
    THEN Len(NODES)
    ELSE Len(csv[StepFile(CurrentStep)].rows)

\* driver = GraphDatabase.driver(...)
CreateDriver ==
    /\ pc = "driver"
    /\ attempts' = attempts + 1
    /\ openDrivers' = openDrivers + 1
    /\ pc' = "open"
    /\ step' = 1
    /\ row' = 0
    /\ progress' = NoProgress
    /\ finished' = { }
    /\ UNCHANGED << csv, nodes, edges, constraints, tries, lastError,
                    openSessions, openFiles, prev, edits >>

\* An exception leaves the with blocks, which close the session and the
\* file, and reaches the retry wrapper.
Raise(kind) ==
    /\ pc' = "except"
    /\ lastError' = kind
    /\ openSessions' = 0
    /\ openFiles' = 0

\* with open(PATH) as f: reader = csv.DictReader(f);
\* with driver.session(database="neo4j") as session:
OpenStep ==
    /\ pc = "open"
    /\ IF CurrentStep = "constraints"
       THEN /\ openSessions' = openSessions + 1
            /\ pc' = "rows"
            /\ UNCHANGED << lastError, openFiles >>
       ELSE IF csv[StepFile(CurrentStep)].path_set
       THEN /\ openFiles' = openFiles + 1
            /\ openSessions' = openSessions + 1
            /\ pc' = "rows"
            /\ UNCHANGED lastError
       ELSE Raise(ConfigurationError)
    /\ row' = 0
    /\ UNCHANGED << csv, nodes, edges, constraints, step, tries, attempts,
                    openDrivers, progress, finished, prev, edits >>

\* The outcome of the next statement of the current block in the store.
StatementOutcome ==
    IF CurrentStep = "constraints"
    THEN ConstraintOutcome(nodes, constraints, NODES[row + 1])
    ELSE IF CurrentStep \in Labels
    THEN MergeNodeOutcome(nodes, constraints, CurrentStep,
                          csv[StepFile(CurrentStep)].rows[row + 1])
    ELSE Ok

\* One pass of a block's loop: session.execute_write(...) / session.run(...)
RunStatement ==
    /\ pc = "rows"
    /\ row < StepLen
    /\ \/ /\ StatementOutcome = Ok
          /\ IF CurrentStep = "constraints"
             THEN /\ constraints' = set_uniqueness_constraints(constraints, NODES[row + 1])
                  /\ UNCHANGED << nodes, edges >>
             ELSE IF CurrentStep \in Labels
             THEN /\ nodes' = MergeNode(nodes, CurrentStep,
                                        csv[StepFile(CurrentStep)].rows[row + 1])
                  /\ UNCHANGED << edges, constraints >>
             ELSE /\ edges' = MergeRel(nodes, edges, CurrentStep,
                                       csv[StepFile(CurrentStep)].rows[row + 1])
                  /\ nodes' = MatchedOnly(nodes, edges, CurrentStep,
                                          csv[StepFile(CurrentStep)].rows[row + 1])
                  /\ UNCHANGED constraints
          /\ row' = row + 1
          /\ progress' = [ progress EXCEPT ![CurrentStep] = @ + 1 ]
          /\ UNCHANGED << pc, lastError, openSessions, openFiles >>
       \/ /\ StatementOutcome # Ok
          /\ Raise(StatementOutcome)
          /\ UNCHANGED << nodes, edges, constraints, row, progress >>
       \/ /\ attempts <= MaxFaultyAttempts
          /\ Raise(TransientStoreError)
          /\ UNCHANGED << nodes, edges, constraints, row, progress >>
    /\ UNCHANGED << csv, step, tries, attempts, openDrivers, finished, prev, edits >>

\* Mutant: the session of a block is opened without with, and is left open.
CloseStepLeak ==
    /\ pc = "rows"
    /\ row = StepLen
    /\ openFiles' = IF CurrentStep = "constraints" THEN openFiles ELSE openFiles - 1
    /\ finished' = finished \cup { CurrentStep }
    /\ IF step < Len(StepOrder)
       THEN /\ step' = step + 1
            /\ pc' = "open"
       ELSE /\ pc' = "close"
            /\ UNCHANGED step
    /\ UNCHANGED << csv, nodes, edges, constraints, row, tries, attempts,
                    lastError, openDrivers, openSessions, progress, prev, edits >>

\* The loop of a block is exhausted: its with blocks exit, the next block
\* follows.
CloseStep ==
    /\ pc = "rows"
    /\ row = StepLen
    /\ openSessions' = openSessions - 1
    /\ openFiles' = IF CurrentStep = "constraints" THEN openFiles ELSE openFiles - 1
    /\ finished' = finished \cup { CurrentStep }
    /\ IF step < Len(StepOrder)
       THEN /\ step' = step + 1
            /\ pc' = "open"
       ELSE /\ pc' = "close"
            /\ UNCHANGED step
    /\ UNCHANGED << csv, nodes, edges, constraints, row, tries, attempts,
                    lastError, openDrivers, progress, prev, edits >>

\* driver.close(), and the function returns.
CloseDriver ==
    /\ pc = "close"
    /\ openDrivers' = openDrivers - 1
    /\ pc' = "done"
    /\ UNCHANGED << csv, nodes, edges, constraints, step, row, tries, attempts,
                    lastError, openSessions, openFiles, progress, finished, prev,
                    edits >>

\* Mutant: retry(exceptions=TransientStoreError, ...).
RetriedTransientOnly(kind) == kind = TransientStoreError

\* The exceptions the retry wrapper catches: no exceptions argument is
\* given, and retry's default is Exception.
Retried(kind) == kind \in Exceptions

\* Mutant: the run resumes at the block that failed.
RetryResume ==
    /\ pc = "except"
    /\ tries - 1 > 0
    /\ tries' = tries - 1
    /\ pc' = "open"
    /\ UNCHANGED << csv, nodes, edges, constraints, step, row, attempts,
                    lastError, openDrivers, openSessions, openFiles, progress,
                    finished, prev, edits >>

\* Mutant: retry's own default, tries=-1, which never gives up.
RetryForever ==
    /\ pc = "except"
    /\ tries' = tries
    /\ pc' = "driver"
    /\ UNCHANGED << csv, nodes, edges, constraints, step, row, attempts,
                    lastError, openDrivers, openSessions, openFiles, progress,
                    finished, prev, edits >>

\* retry: except exceptions: _tries -= 1; if not _tries: raise;
\* time.sleep(_delay), and the function is called again.
Retry ==
    /\ pc = "except"
    /\ Retried(lastError)
    /\ tries - 1 > 0
    /\ tries' = tries - 1
    /\ pc' = "driver"
    /\ UNCHANGED << csv, nodes, edges, constraints, step, row, attempts,
                    lastError, openDrivers, openSessions, openFiles, progress,
                    finished, prev, edits >>

\* The exception leaves the wrapper: the process ends with a traceback.
Propagate ==
    /\ pc = "except"
    /\ ~ Retried(lastError) \/ tries - 1 = 0
    /\ tries' = IF Retried(lastError) THEN tries - 1 ELSE tries
    /\ pc' = "fatal"
    /\ UNCHANGED << csv, nodes, edges, constraints, step, row, attempts,
                    lastError, openDrivers, openSessions, openFiles, progress,
                    finished, prev, edits >>

\* The loader is run again, on the same extracts or on edited ones, in a new
\* process against the same store.
Invoke ==
    /\ pc \in { "done", "fatal", "killed" }
    /\ \E c \in { csv } \cup (IF edits < MaxEdits THEN Edited(csv) ELSE { }) :
          /\ csv' = c
          /\ edits' = IF c = csv THEN edits ELSE edits + 1
    /\ prev' = [ status |-> pc, csv |-> csv, nodes |-> nodes, edges |-> edges,
                 constraints |-> constraints,
                 cut |-> IF pc = "killed"
                         THEN [ nodes |-> prev.nodes, edges |-> prev.edges,
                                constraints |-> prev.constraints ]
                         ELSE NoCut ]
    /\ pc' = "driver"
    /\ step' = 1
    /\ row' = 0
    /\ tries' = Tries
    /\ attempts' = 0
    /\ lastError' = "none"
    /\ openDrivers' = 0
    /\ progress' = NoProgress
    /\ finished' = { }
    /\ UNCHANGED << nodes, edges, constraints, openSessions, openFiles >>

Next ==
    \/ CreateDriver
    \/ OpenStep
    \/ RunStatement
    \/ CloseStep
    \/ CloseDriver
    \/ Retry
    \/ Propagate
    \/ Invoke

Spec == Init /\ [][Next]_vars

\* The process is ended from outside at any point of the first attempt of an
\* invocation; what its statements have written stays written.
Kill ==
    /\ pc \in { "open", "rows", "close", "except" }
    /\ attempts = 1
    /\ pc' = "killed"
    /\ step' = 1
    /\ row' = 0
    /\ openDrivers' = 0
    /\ openSessions' = 0
    /\ openFiles' = 0
    /\ progress' = NoProgress
    /\ finished' = { }
    /\ tries' = Tries
    /\ attempts' = 0
    /\ lastError' = "none"
    /\ UNCHANGED << csv, nodes, edges, constraints, prev, edits >>

\* The invocation that follows a cut finds the store in reach, and the
\* extracts as they were.
Calm == prev.status = "killed" => lastError' # TransientStoreError

KillNext ==
    \/ CreateDriver
    \/ OpenStep
    \/ RunStatement /\ Calm
    \/ CloseStep
    \/ CloseDriver
    \/ Retry
    \/ Propagate
    \/ Invoke /\ (pc = "killed" => csv' = csv)
    \/ Kill

\* The invocations with the cuts an operator or the host may make.
KillSpec == Init /\ [][KillNext]_vars

\* The store a run without a failure leaves: the blocks in their order, each
\* over its rows in their order. ok is FALSE when a statement of that run
\* raises.
RECURSIVE Load(_, _, _, _)
Load(c, st, k, i) ==
    IF ~ st.ok \/ k > Len(StepOrder)
    THEN st
    ELSE LET s == StepOrder[k] IN
         IF s = "constraints"
         THEN IF i >= Len(NODES)
              THEN Load(c, st, k + 1, 0)
              ELSE IF ConstraintOutcome(st.nodes, st.constraints, NODES[i + 1]) # Ok
              THEN [ st EXCEPT !.ok = FALSE ]
              ELSE Load(c, [ st EXCEPT !.constraints =
                                 set_uniqueness_constraints(@, NODES[i + 1]) ],
                        k, i + 1)
         ELSE IF ~ c[StepFile(s)].path_set
         THEN [ st EXCEPT !.ok = FALSE ]
         ELSE IF i >= Len(c[StepFile(s)].rows)
         THEN Load(c, st, k + 1, 0)
         ELSE LET r == c[StepFile(s)].rows[i + 1] IN
              IF s \in Labels
              THEN IF MergeNodeOutcome(st.nodes, st.constraints, s, r) # Ok
                   THEN [ st EXCEPT !.ok = FALSE ]
                   ELSE Load(c, [ st EXCEPT !.nodes = MergeNode(@, s, r) ], k, i + 1)
              ELSE Load(c, [ st EXCEPT !.edges = MergeRel(st.nodes, @, s, r),
                                       !.nodes = MatchedOnly(@, st.edges, s, r) ],
                        k, i + 1)

load_hospital_graph_from_csv(c, N, E, C) ==
    Load(c, [ nodes |-> N, edges |-> E, constraints |-> C, ok |-> TRUE ], 1, 0)

\* The steps of the process itself: all but a new invocation.
Run ==
    \/ CreateDriver
    \/ OpenStep
    \/ RunStatement
    \/ CloseStep
    \/ CloseDriver
    \/ Retry
    \/ Propagate

\* The process is one thread that no statement blocks for ever (each write
\* is a bounded request, the sleep between attempts is 10 seconds): while
\* it can take a step it takes one.
FairSpec == Spec /\ WF_vars(Run)

---------------------------------------------------------------------------
(* The claims *)

Rows(s) == csv[StepFile(s)].rows

\* The current block has opened its session.
Running(s) == pc = "rows" /\ CurrentStep = s

\* C1: in every attempt, once a node block has started or has issued a MERGE,
\* the constraint statements of all six labels have been issued and have
\* completed in that attempt.
C1_ConstraintsBeforeNodes ==
    \A l \in Labels :
        (Running(l) \/ progress[l] > 0) =>
            /\ progress["constraints"] = Len(NODES)
            /\ "constraints" \in finished
            /\ Labels \subseteq constraints

\* C1: a second attempt has issued its first node MERGE.
C1_Witness ==
    /\ attempts = 2
    /\ Running("Hospital")
    /\ progress["Hospital"] = 1

\* C2: in every attempt, a relationship block has started only if the node
\* blocks of both of its end labels have run to their end in that attempt,
\* each having processed every row of its file.
C2_EndpointsLoadedFirst ==
    \A t \in RelTypes :
        (Running(t) \/ progress[t] > 0 \/ t \in finished) =>
            \A l \in EndLabels(t) :
                l \in finished /\ progress[l] = Len(Rows(l))

\* C2: a second attempt has started the AT block, with two visits to link.
C2_Witness ==
    /\ attempts = 2
    /\ Running("AT")
    /\ row = 0
    /\ progress["Visit"] = 2

\* C3: a complete load that follows a complete load of the same extracts
\* ends with the nodes and relationships, and the numbers of them, that the
\* first one left.
C3_Idempotent ==
    (pc = "done" /\ prev.status = "done" /\ prev.csv = csv) =>
        /\ nodes = prev.nodes
        /\ edges = prev.edges
        /\ BagCardinality(nodes) = BagCardinality(prev.nodes)
        /\ BagCardinality(edges) = BagCardinality(prev.edges)

\* C3: the second of two complete loads of the same extracts has ended, on a
\* store that holds nodes and relationships.
C3_Witness ==
    /\ pc = "done"
    /\ prev.status = "done"
    /\ prev.csv = csv
    /\ BagCardinality(nodes) >= Len(NODES)
    /\ BagCardinality(edges) >= Cardinality(RelTypes)

\* C4: in every state of the store no two nodes of a label have the same id.
C4_KeyUnique ==
    \A n \in BagToSet(nodes) : IdCount(nodes, n.label, n.props.id) = 1

\* C4: in a later run, a visit row whose id is in the store with other
\* properties has been sent, and the store has refused it.
C4_Witness ==
    /\ pc = "except"
    /\ lastError = ConstraintViolationError
    /\ CurrentStep = "Visit"
    /\ prev.status = "done"
    /\ ~ BagIn(NodePattern("Visit", Rows("Visit")[row + 1]), nodes)
    /\ IdCount(nodes, "Visit", NodeProps("Visit", Rows("Visit")[row + 1]).id) = 1

\* C5: in every state of the store at most one relationship of a type leads
\* from one node to another.
C5_EdgeUnique ==
    \A e \in BagToSet(edges) : PairCount(edges, e.type, e.from, e.to) = 1

\* C5: in a repeated run, the EMPLOYS block has processed two visit rows of
\* different visits that name the same hospital and physician.
C5_Witness ==
    /\ Running("EMPLOYS")
    /\ row = 2
    /\ prev.status = "done"
    /\ Rows("EMPLOYS")[1].visit_id # Rows("EMPLOYS")[2].visit_id
    /\ Rows("EMPLOYS")[1].hospital_id = Rows("EMPLOYS")[2].hospital_id
    /\ Rows("EMPLOYS")[1].physician_id = Rows("EMPLOYS")[2].physician_id
    /\ \E e \in BagToSet(edges) : e.type = "EMPLOYS"

\* The next row of the current relationship block names a node that is not in
\* the store.
AbsentEndpoint ==
    /\ pc = "rows"
    /\ CurrentStep \in RelTypes
    /\ row < StepLen
    /\ \/ MatchNodes(nodes, RelEnds(CurrentStep, Rows(CurrentStep)[row + 1]).from) = { }
       \/ MatchNodes(nodes, RelEnds(CurrentStep, Rows(CurrentStep)[row + 1]).to) = { }

\* C6: a relationship row that names an absent node is never passed over:
\* the block does not go on to its next row.
C6_AbsentEndpointFails ==
    [][ AbsentEndpoint => ~ (pc' = "rows" /\ row' = row + 1) ]_vars

\* C7: a COVERED_BY relationship, once in the store, stays in it with the
\* service_date and billing_amount it has, whatever row is processed.
C7_CreateOnly ==
    [][ \A e \in BagToSet(edges) :
            e.type = "COVERED_BY" =>
                /\ BagIn(e, edges')
                /\ PairCount(edges', "COVERED_BY", e.from, e.to)
                     = PairCount(edges, "COVERED_BY", e.from, e.to) ]_vars

\* C7: in a later run, the COVERED_BY block has processed a row for a pair
\* whose relationship holds another billing amount.
C7_Witness ==
    /\ Running("COVERED_BY")
    /\ row >= 1
    /\ prev.status = "done"
    /\ \E e \in BagToSet(edges) :
          /\ e.type = "COVERED_BY"
          /\ e.from \in MatchNodes(nodes, RelEnds("COVERED_BY", Rows("COVERED_BY")[row]).from)
          /\ e.to \in MatchNodes(nodes, RelEnds("COVERED_BY", Rows("COVERED_BY")[row]).to)
          /\ e.props.billing_amount # toFloat(Rows("COVERED_BY")[row].billing_amount)

\* C8 as stated: an error that is no transient store error ends the run
\* without a further attempt.
C8_OnlyTransientRetried ==
    [][ (pc = "except" /\ lastError # TransientStoreError) => pc' # "driver" ]_vars

\* C8 as amended: every error raised in a step, of whatever kind, is followed
\* by a further attempt while fewer than Tries attempts have been made, and
\* ends the run only at the last attempt.
C8_EveryErrorRetried ==
    [][ (pc = "except" /\ lastError \in Exceptions) =>
            IF attempts < Tries THEN pc' = "driver" ELSE pc' = "fatal" ]_vars

\* C8: a further attempt is about to start after a configuration error.
C8_Witness ==
    /\ pc = "driver"
    /\ attempts >= 1
    /\ lastError = ConfigurationError

\* C9: an attempt that fails is followed, while attempts are left, by an
\* attempt that starts with the creation of the driver and the constraint
\* block, with nothing of the failed attempt's progress kept; no invocation
\* makes more than Tries attempts.
C9_WholeRunBoundedRetry ==
    [][ /\ attempts' <= Tries
        /\ (pc = "except" /\ pc' # "fatal") => pc' = "driver"
        /\ pc = "driver" =>
              /\ pc' = "open"
              /\ attempts' = attempts + 1
              /\ openDrivers' = openDrivers + 1
              /\ StepOrder[step'] = "constraints"
              /\ row' = 0
              /\ progress' = NoProgress
              /\ finished' = { } ]_vars

\* C9: the last attempt the ceiling allows runs its constraint block, the
\* attempt before it having failed in a later block.
C9_Witness ==
    /\ attempts = Tries
    /\ Running("constraints")
    /\ lastError = ConstraintViolationError

\* C10: when an attempt starts and when the process ends, no driver is open.
C10_DriverClosedOnEveryExit ==
    pc \in { "driver", "done", "fatal" } => openDrivers = 0

\* The phase of an attempt: 0 INIT, 1 CONSTRAINTS, 2 NODES, 3 RELATIONSHIPS,
\* 4 DONE.
Phase ==
    CASE pc = "driver" -> 0
      [] pc \in { "open", "rows" } /\ CurrentStep = "constraints" -> 1
      [] pc \in { "open", "rows" } /\ CurrentStep \in Labels -> 2
      [] pc \in { "open", "rows" } /\ CurrentStep \in RelTypes -> 3
      [] OTHER -> 4

\* C11: every invocation ends, in DONE or in FAILED; it ends in DONE only
\* with every block of its last attempt run to the end, and in FAILED only
\* with the last of the Tries attempts failed; it never makes more than Tries
\* attempts; and while an attempt runs its phase stays or moves to the next
\* one.
C11_Terminates ==
    /\ (pc = "driver" /\ attempts = 0) ~> (pc \in { "done", "fatal" })
    /\ [](pc = "done" => finished = StepNames /\ openSessions = 0)
    /\ [](pc = "fatal" => attempts = Tries /\ tries = 0 /\ lastError \in Exceptions)
    /\ [](attempts <= Tries)
    /\ [][ (pc \in { "driver", "open", "rows", "close" } /\ pc' \notin { "except", "fatal" })
             => Phase' \in { Phase, Phase + 1 } ]_vars

\* C11: an invocation has ended in FAILED, every one of its attempts having
\* failed.
C11_Witness ==
    /\ pc = "fatal"
    /\ attempts = Tries
    /\ lastError = ConfigurationError

\* What one run without a failure leaves of the store the invocation was
\* started on.
FailureFree == load_hospital_graph_from_csv(csv, prev.nodes, prev.edges, prev.constraints)

\* C12: on inputs a run without a failure loads, an attempt fails only when
\* the store cannot be reached; and when the third attempt, after two that
\* failed so, runs to its end, the invocation has succeeded and the store is
\* the one a single run without a failure leaves, with no identifier and no
\* relationship twice.
C12_RetryConverges ==
    (pc \in { "except", "fatal" } \/ (pc = "done" /\ attempts = 3)) /\ FailureFree.ok =>
        /\ pc = "except" => lastError = TransientStoreError
        /\ pc # "fatal"
        /\ pc = "done" =>
              /\ nodes = FailureFree.nodes
              /\ edges = FailureFree.edges
              /\ \A n \in BagToSet(nodes) : IdCount(nodes, n.label, n.props.id) = 1
              /\ \A e \in BagToSet(edges) : PairCount(edges, e.type, e.from, e.to) = 1

\* C12: the third attempt has succeeded after two attempts that lost the
\* store, the second of them in the middle of the relationships.
C12_Witness ==
    /\ pc = "done"
    /\ attempts = 3
    /\ lastError = TransientStoreError
    /\ FailureFree.ok
    /\ prev.status = "none"
    /\ BagCardinality(edges) = 6

\* What one run without a failure leaves of the store that the invocation
\* which was cut off had been started on.
Uninterrupted ==
    load_hospital_graph_from_csv(csv, prev.cut.nodes, prev.cut.edges,
                                 prev.cut.constraints)

\* C14: when an invocation was cut off, after whatever part of its writes,
\* the next invocation over the same extracts, if the store stays in reach,
\* does not fail where a run that was never cut would not, and it ends with
\* the store that run would have left.
C14_InterruptedRunConverges ==
    (prev.status = "killed" /\ pc \in { "except", "fatal", "done" } /\ Uninterrupted.ok) =>
        /\ pc = "done"
        /\ nodes = Uninterrupted.nodes
        /\ edges = Uninterrupted.edges

\* C14: an invocation that was cut off with some of the relationships
\* written, but not all, has been followed by one that ran to its end.
C14_Witness ==
    /\ pc = "done"
    /\ prev.status = "killed"
    /\ prev.csv = csv
    /\ Uninterrupted.ok
    /\ BagCardinality(prev.edges) > 0
    /\ BagCardinality(prev.edges) < BagCardinality(edges)

\* The next statement is the MERGE of a node row whose identifier a stored
\* node of the label bears while no stored node bears all its properties.
ConflictingRow ==
    /\ pc = "rows"
    /\ CurrentStep \in Labels
    /\ row < StepLen
    /\ LET r == Rows(CurrentStep)[row + 1] IN
          /\ IntegerFields(CurrentStep, r) \subseteq IntegerText
          /\ FloatFields(CurrentStep, r) \subseteq FloatText
          /\ ~ BagIn(NodePattern(CurrentStep, r), nodes)
          /\ IdCount(nodes, CurrentStep, NodeProps(CurrentStep, r).id) > 0

\* The identifier of the row of the next statement.
NextId == NodeProps(CurrentStep, Rows(CurrentStep)[row + 1]).id

\* C13 as stated: the MERGE of such a row, when the store is in reach, goes
\* through and leaves a second node with the identifier.
C13_SecondNodeCreated ==
    [][ (ConflictingRow /\ ~ (pc' = "except" /\ lastError' = TransientStoreError))
          => /\ pc' = "rows"
             /\ IdCount(nodes', CurrentStep, NextId) = IdCount(nodes, CurrentStep, NextId) + 1
      ]_vars

\* C13 amended: the MERGE of such a row does not match the stored node and
\* does not update it; the creation it then asks for is refused by the
\* uniqueness constraint, so the statement fails, the attempt with it, and
\* the store keeps its one node with the identifier.
C13_SecondNodeRefused ==
    [][ ConflictingRow
          => /\ pc' = "except"
             /\ lastError' \in { ConstraintViolationError, TransientStoreError }
             /\ nodes' = nodes
             /\ IdCount(nodes', CurrentStep, NextId) = 1
      ]_vars

\* C13: the second hospital row, with the identifier of the first and
\* another name, has been refused.
C13_Witness ==
    /\ pc = "except"
    /\ lastError = ConstraintViolationError
    /\ CurrentStep = "Hospital"
    /\ row = 1
    /\ Len(Rows("Hospital")) = 2
    /\ BagCardinality(nodes) = 1

\* C15: no step of any attempt of any invocation takes a node or a
\* relationship out of the store: what is stored stays stored, as it is.
C15_NeverDeletes ==
    [][ nodes \sqsubseteq nodes' /\ edges \sqsubseteq edges' ]_vars

\* C15: a second invocation, over a visit row with another billing amount,
\* has run its COVERED_BY statement on a store that holds the relationship
\* with the amount of the first.
C15_Witness ==
    /\ prev.status = "done"
    /\ prev.csv # csv
    /\ CurrentStep = "COVERED_BY"
    /\ progress["COVERED_BY"] = 1
    /\ \E e \in BagToSet(edges) :
          /\ e.type = "COVERED_BY"
          /\ e.props # OnCreateProps("COVERED_BY", Rows("COVERED_BY")[1])

\* The nodes of the example: Hospital 1, Payer 5, Patient 10, Visit 100.
ExampleHospital ==
    [ label |-> "Hospital",
      props |-> [ id |-> 1, name |-> "General", state_name |-> "CA" ] ]

ExamplePayer ==
    [ label |-> "Payer", props |-> [ id |-> 5, name |-> "Medicaid" ] ]

ExamplePatient ==
    [ label |-> "Patient",
      props |-> [ id |-> 10, name |-> "Ann", sex |-> "F", dob |-> "1980-02-02",
                  blood_type |-> "O+" ] ]

ExampleVisit ==
    [ label |-> "Visit",
      props |-> [ id |-> 100, room_number |-> 12, admission_type |-> "Emergency",
                  admission_date |-> "2023-01-01", test_results |-> "Normal",
                  status |-> "DISCHARGED", chief_complaint |-> "pain",
                  treatment_description |-> "rest", diagnosis |-> "flu",
                  discharge_date |-> "2023-01-05" ] ]

\* C16: the first invocation over the extracts of the example, when it has
\* succeeded, has left one Hospital, one Payer, one Patient and one Visit
\* node and no other node, and three relationships and no other: AT from
\* Visit 100 to Hospital 1, HAS from Patient 10 to Visit 100, COVERED_BY from
\* Visit 100 to Payer 5 with the billing amount 10.5 of the row.
C16_ExampleScenario ==
    (pc = "done" /\ prev.status = "none" /\ csv = ExampleScenario) =>
        /\ nodes = SetToBag({ ExampleHospital, ExamplePayer, ExamplePatient, ExampleVisit })
        /\ edges = SetToBag({
              [ type |-> "AT", from |-> ExampleVisit, to |-> ExampleHospital,
                props |-> [ properties |-> 0 ] ],
              [ type |-> "HAS", from |-> ExamplePatient, to |-> ExampleVisit,
                props |-> [ properties |-> 0 ] ],
              [ type |-> "COVERED_BY", from |-> ExampleVisit, to |-> ExamplePayer,
                props |-> [ service_date |-> "2023-01-05", billing_amount |-> 105 ] ] })

\* C16: the first invocation over the extracts of the example has succeeded.
C16_Witness ==
    /\ pc = "done"
    /\ prev.status = "none"
    /\ csv = ExampleScenario
    /\ finished = StepNames
    /\ BagCardinality(edges) = 3

\* The next statement asks for the constraint of a label that has it.
Reissue ==
    /\ Running("constraints")
    /\ row < Len(NODES)
    /\ NODES[row + 1] \in constraints

\* C17: the store holds constraints of the six labels only, one for each of
\* them once the constraint block of an attempt has run; and the statement
\* for a label that has its constraint, unless the store is out of reach,
\* goes through, and it leaves the constraints, the nodes and the
\* relationships as they are.
C17_ConstraintStepIdempotent ==
    /\ [](constraints \subseteq Labels)
    /\ []("constraints" \in finished => constraints = Labels)
    /\ [][ Reissue =>
             /\ constraints' = constraints
             /\ nodes' = nodes
             /\ edges' = edges
             /\ \/ pc' = "rows" /\ row' = row + 1
                \/ pc' = "except" /\ lastError' = TransientStoreError
         ]_vars

\* C17: the second invocation has asked again for all six constraints, on a
\* loaded store.
C17_Witness ==
    /\ prev.status = "done"
    /\ Running("constraints")
    /\ row = Len(NODES)
    /\ constraints = Labels
    /\ BagCardinality(nodes) > 0
    /\ nodes = prev.nodes

\* The number of statements of a block.
Statements(s) == IF s = "constraints" THEN Len(NODES) ELSE Len(Rows(s))

\* C18: at most one session and at most one extract are open; a session is
\* open only while the one current block runs its statements; and when a
\* block opens or runs, every block before it has run all its statements in
\* this attempt and is finished, its session closed.
C18_Sequential ==
    /\ openSessions \in { 0, 1 }
    /\ openFiles \in { 0, 1 }
    /\ openSessions = 1 <=> pc = "rows"
    /\ openFiles = 1 => pc = "rows" /\ CurrentStep # "constraints"
    /\ pc \in { "open", "rows" } =>
          \A j \in 1..(step - 1) :
              /\ StepOrder[j] \in finished
              /\ progress[StepOrder[j]] = Statements(StepOrder[j])
    /\ pc \in { "open", "rows" } =>
          \A j \in (step + 1)..Len(StepOrder) : progress[StepOrder[j]] = 0

\* C18: the last block has opened its session, the twelve before it having
\* closed theirs.
C18_Witness ==
    /\ Running("EMPLOYS")
    /\ openSessions = 1
    /\ finished = StepNames \ { "EMPLOYS" }

\* C19: a statement of a relationship block, and every other step taken
\* while such a block runs, leaves the nodes as they are, each with its
\* properties, whether the row's ends are stored or not.
C19_RelationshipsLeaveNodes ==
    [][ (pc = "rows" /\ CurrentStep \in RelTypes) => nodes' = nodes ]_vars

\* C19: the AT statement has run on a row whose hospital is not stored, and
\* no Hospital node with the row's identifier has appeared.
C19_Witness ==
    /\ Running("AT")
    /\ row = 1
    /\ progress["AT"] = 1
    /\ MatchNodes(nodes, RelEnds("AT", Rows("AT")[1]).from) # { }
    /\ MatchNodes(nodes, RelEnds("AT", Rows("AT")[1]).to) = { }

\* The direction of each relationship type, and the column of an extract
\* that holds the identifier of a node of each label.
Direction(type) ==
    CASE type = "AT"         -> << "Visit", "Hospital" >>
      [] type = "WRITES"     -> << "Visit", "Review" >>
      [] type = "TREATS"     -> << "Physician", "Visit" >>
      [] type = "COVERED_BY" -> << "Visit", "Payer" >>
      [] type = "HAS"        -> << "Patient", "Visit" >>
      [] type = "EMPLOYS"    -> << "Hospital", "Physician" >>

KeyColumn(label) ==
    CASE label = "Hospital"  -> "hospital_id"
      [] label = "Payer"     -> "payer_id"
      [] label = "Physician" -> "physician_id"
      [] label = "Patient"   -> "patient_id"
      [] label = "Visit"     -> "visit_id"
      [] label = "Review"    -> "review_id"

SourceFile(type) ==
    IF type = "WRITES" THEN "REVIEWS_CSV_PATH" ELSE "VISITS_CSV_PATH"

\* A row of the extract names the node in the key column of its label.
Names(r, n) ==
    /\ r[KeyColumn(n.label)] \in IntegerText
    /\ toInteger(r[KeyColumn(n.label)]) = n.props.id

\* Some row of the source extract of the type names a and b, a of the label
\* the type starts at and b of the label it ends at.
Derived(type, a, b) ==
    /\ a.label = Direction(type)[1]
    /\ b.label = Direction(type)[2]
    /\ \E i \in 1..Len(csv[SourceFile(type)].rows) :
          /\ Names(csv[SourceFile(type)].rows[i], a)
          /\ Names(csv[SourceFile(type)].rows[i], b)

\* C20: when the first invocation, on the empty store, has succeeded, every
\* relationship joins two stored nodes, and for every type and every two
\* stored nodes a and b there is one relationship of the type from a to b if
\* a row of the type's extract names both in the type's direction, and none
\* otherwise.
C20_EdgesDerivedFromRows ==
    (pc = "done" /\ prev.status = "none") =>
        /\ \A e \in BagToSet(edges) :
              /\ e.type \in RelTypes
              /\ BagIn(e.from, nodes)
              /\ BagIn(e.to, nodes)
        /\ \A type \in RelTypes : \A a, b \in BagToSet(nodes) :
              PairCount(edges, type, a, b) = IF Derived(type, a, b) THEN 1 ELSE 0

\* C20: the first invocation has loaded two visits, with the ten
\* relationships their rows and the review's row name.
C20_Witness ==
    /\ pc = "done"
    /\ prev.status = "none"
    /\ Len(Rows("Visit")) = 2
    /\ BagCardinality(nodes) = 7
    /\ BagCardinality(edges) = 10

===========================================================================
